---- MODULE Spec2Model ----
(***************************************************************************)
(* Model of the RateMyProfessors cache controller of ucsb-courses          *)
(* (src/src/rmp.rs, impl Controller).  Each request is an async call that  *)
(* runs between await points; every action below is the code that runs     *)
(* between two awaits of one call.  The upstream service (Solr search,     *)
(* token page, GraphQL ratings) is an adversarial environment.             *)
(*                                                                         *)
(* Option<T> is modelled as a sequence: <<>> is None, <<v>> is Some(v).    *)
(* Strings are sequences of characters; the literal "teacher:" is one      *)
(* character of the alphabet of identifier strings.                        *)
(* f32 values are fixed-point integers in thousandths (Milli).             *)
(*                                                                         *)
(* A lock is granted to any waiter (tokio's Mutex is FIFO, one case of     *)
(* it).  Calls run to completion: a future dropped at an await point is    *)
(* not modelled.  Rating counts stay in the ranges the review site uses,   *)
(* far from the u32 limits of the scorer's arithmetic; a rating's date is  *)
(* any signed timestamp the date format can carry, dates before 1970       *)
(* included.                                                               *)
(***************************************************************************)
EXTENDS Integers, Sequences, FiniteSets, TLC

\* ---------------------------------------------------------------- bounds
NumProcs == 2
MaxCalls == 2
MaxHits == 2
MaxRatings == 2

\* ------------------------------------------------------ program constants
OFFSET_ALL == 157680000
OFFSET_YR == 31536000
\* f32 fixed-point unit and the publication thresholds 8.0 and 2.0.
Milli == 10 * 100
MIN_WEIGHT_ALL == 8 * Milli
MIN_WEIGHT_YR == 2 * Milli

Procs == 1..NumProcs

None == <<>>
Some(v) == <<v>>
IsSome(o) == o # <<>>
Unwrap(o) == o[1]

\* ------------------------------------------------------------ input sets
\* Request names as the route layer passes them: two casings of one name
\* and a second name.
Names == { <<"J", "D">>, <<"j", "d">>, <<"B">> }

\* Tokens the token page can carry at different times.
Tokens == { "tokA", "tokB" }

\* Search hits (ProfessorResponse) the Solr backend can return.
Hit(id, first, last, dept) ==
    [id |-> id, first_name |-> first, last_name |-> last,
     full_name |-> first \o last, department |-> dept]

Hits ==
    { Hit(<<"teacher:", "1">>, <<"J">>, <<"D">>, "Math"),
      Hit(<<"teacher:", "1">>, <<"J">>, <<"D">>, "Physics"),
      Hit(<<"teacher:", "2">>, <<"B">>, <<"O">>, "Math"),
      Hit(<<"teacher:", "x">>, <<"N">>, <<"N">>, "Math") }

SeqsUpTo(S, n) == UNION { [1..k -> S] : k \in 0..n }

SearchResults == SeqsUpTo(Hits, MaxHits)

\* Clock readings of SystemTime::now() and rating dates around the windows.
NowBase == 16 * 100000000
Nows == { NowBase }

Rating(h, c, up, down, date) ==
    [helpful |-> h, clarity |-> c, thumbs_up |-> up, thumbs_down |-> down,
     date |-> date]

RatingPool ==
    { Rating(4, 4, 0, 0, NowBase),
      Rating(5, 5, 40, 0, NowBase) }

RatingLists == SeqsUpTo(RatingPool, MaxRatings)

\* --------------------------------------------------------- pure functions
\* str::to_lowercase, character by character.
LowerChar(c) ==
    CASE c = "J" -> "j"
      [] c = "D" -> "d"
      [] c = "B" -> "b"
      [] OTHER -> c

to_lowercase(s) == [i \in 1..Len(s) |-> LowerChar(s[i])]

\* r.replace("teacher:", ""): every occurrence is removed.
replace_teacher(s) == SelectSeq(s, LAMBDA c: c # "teacher:")

IsDigit(c) == c \in {"0", "1", "2", "3", "4", "5", "6", "7", "8", "9"}

DigitVal(c) ==
    CASE c = "0" -> 0 [] c = "1" -> 1 [] c = "2" -> 2 [] c = "3" -> 3
      [] c = "4" -> 4 [] c = "5" -> 5 [] c = "6" -> 6 [] c = "7" -> 7
      [] c = "8" -> 8 [] c = "9" -> 9

RECURSIVE DecimalVal(_)
DecimalVal(s) ==
    IF s = <<>> THEN 0
    ELSE 10 * DecimalVal(SubSeq(s, 1, Len(s) - 1)) + DigitVal(s[Len(s)])

\* str::parse::<u32>().ok(): None for the empty string or a non-digit.
parse_u32(s) ==
    IF s # <<>> /\ \A i \in 1..Len(s) : IsDigit(s[i])
    THEN Some(DecimalVal(s))
    ELSE None

ParseId(hit) == parse_u32(replace_teacher(hit.id))

\* res.iter().map(..).filter_map(|r| r).collect()
RECURSIVE CollectIds(_)
CollectIds(res) ==
    IF res = <<>> THEN <<>>
    ELSE LET o == ParseId(Head(res))
         IN  (IF IsSome(o) THEN <<Unwrap(o)>> ELSE <<>>) \o CollectIds(Tail(res))

\* ids.get(0).cloned()
First(ids) == IF ids = <<>> THEN None ELSE Some(ids[1])


\* ----------------------------------------------------------------- scorer
\* ln_1p(n / 2.0) in thousandths, for the thumbs totals of the rating pool.
Ln1pHalfMilli(n) ==
    CASE n = 0 -> 0
      [] n = 1 -> 405
      [] n = 2 -> 693
      [] n = 3 -> 916
      [] n = 4 -> 1099
      [] n = 40 -> 3045
      [] n = 41 -> 3068
      [] n = 42 -> 3091
      [] n = 80 -> 3714

\* The largest u64.  The model's integers are 32 bits wide, so u64 is
\* modelled at that width; every clock reading and every date from 1970 on
\* in the model is below it, so that, as in the code, only the cast of a
\* negative timestamp wraps, and it wraps above every cutoff.
U64_MAX == 2147483647

\* r.date.timestamp() as u64
as_u64(ts) == IF ts >= 0 THEN ts ELSE (U64_MAX + ts) + 1

thumbs_weight(r) == ((r.thumbs_up + 1) * Milli) \div (r.thumbs_up + r.thumbs_down + 1)

time_weight(r, offsetted, offset) ==
    (as_u64(r.date) - offsetted) \div (offset \div Milli)

quantity_weight(r) == Ln1pHalfMilli(r.thumbs_up + r.thumbs_down) + Milli

avg_weight(r, offsetted, offset) ==
    (((thumbs_weight(r) * time_weight(r, offsetted, offset)) \div Milli)
        * quantity_weight(r)) \div Milli

\* One iteration of the loop of _weighted_score, on rating r with the
\* running (quality_ratings_sum, total_weight) in acc.
ScoreIter(acc, r, offsetted, offset) ==
    IF as_u64(r.date) < offsetted THEN acc
    ELSE LET w == avg_weight(r, offsetted, offset)
         IN  [sum |-> acc.sum + ((r.helpful + r.clarity) * w) \div 2,
              weight |-> acc.weight + w]

\* The loop of _weighted_score: (quality_ratings_sum, total_weight).
RECURSIVE ScoreLoop(_, _, _)
ScoreLoop(data, offsetted, offset) ==
    IF data = <<>> THEN [sum |-> 0, weight |-> 0]
    ELSE ScoreIter(ScoreLoop(SubSeq(data, 1, Len(data) - 1), offsetted, offset),
                   data[Len(data)], offsetted, offset)

_weighted_score(data, offset, now) == ScoreLoop(data, now - offset, offset)

ScoreAboveThreshold(score, weight, score_yr, weight_yr) ==
    [quality |-> IF weight <= MIN_WEIGHT_ALL THEN None
                 ELSE Some((score * Milli) \div weight),
     quality_yr |-> IF weight_yr <= MIN_WEIGHT_YR THEN None
                    ELSE Some((score_yr * Milli) \div weight_yr)]

\* let professor_score = Score { quality, quality_yr }
Score(score, weight, score_yr, weight_yr) ==
    [quality |-> IF weight < MIN_WEIGHT_ALL THEN None
                 ELSE Some((score * Milli) \div weight),
     quality_yr |-> IF weight_yr < MIN_WEIGHT_YR THEN None
                    ELSE Some((score_yr * Milli) \div weight_yr)]

\* Score { quality, quality_yr } built by professor_overview.
MakeScore(resp, now) ==
    LET all == _weighted_score(resp, OFFSET_ALL, now)
        yr == _weighted_score(resp, OFFSET_YR, now)
    IN  Score(all.sum, all.weight, yr.sum, yr.weight)

\* ------------------------------------------------------------------ state
VARIABLES
    rmp_graphql_token,  \* ControllerData.rmp_graphql_token: Option<String>
    name_id_map,        \* ControllerData.name_id_map: lower-cased name -> ids
    id_professor_map,   \* ControllerData.id_professor_map: id -> Professor
    data_lock,          \* owner of Controller.data's Mutex, 0 when free
    professor_lock,     \* owner of each record's Mutex, 0 when free
    pc,                 \* await point each call is suspended at
    op,                 \* operation each call runs
    name,               \* the call's name argument
    pr,                 \* the call's resolved record handle (its id)
    token,              \* the call's local token
    ret,                \* what the call returned
    calls,              \* calls started so far
    io,                 \* the upstream requests each call made, with outcome
    scorer              \* the locals of professor_overview while it scores

vars == << rmp_graphql_token, name_id_map, id_professor_map, data_lock,
           professor_lock, pc, op, name, pr, token, ret, calls, io, scorer >>

ctrl == << rmp_graphql_token, name_id_map, id_professor_map >>

\* The operations of the Controller, and the comment-listing handlers of
\* the route layer (main.rs), which resolve and fetch the same way and
\* differ in what they answer.
Ops == { "overview", "comments", "token", "http_comments" }

\* Return values.  tag: "pending" while the call runs; "Some"/"None" for
\* professor_overview; "Vec" for professor_comments; "Ok"/"Err" for
\* graphql_token; "Json"/"Error" for the payload of a comment-listing
\* handler.
Ret(tag, handle, score, ratings, tok) ==
    [tag |-> tag, pr |-> handle, score |-> score, ratings |-> ratings,
     token |-> tok]

Pending == Ret("pending", None, None, <<>>, None)

\* Log of the upstream requests of one call (the call counter of a stub
\* gateway): "none", "sent", "ok" or "err" for the search, the token page
\* and the ratings request, and the ratings the gateway answered with.
NoIo == [search |-> "none", token |-> "none", ratings |-> "none", body |-> <<>>]

\* Comment { quality, date, .. } of one rating (main.rs 199-207).
Comment(r) == [quality |-> ((r.clarity + r.helpful) * Milli) \div 2, date |-> r.date]

\* web::Json(comments): the list a comment-listing handler answers with.
CommentsPayload(resp) ==
    Ret("Json", None, None, [i \in 1..Len(resp) |-> Comment(resp[i])], None)

\* web::Json(json!({"error": "RMP"}))
ErrorPayload == Ret("Error", None, None, <<>>, None)

FailRetPropagates(o) == Ret("Err", None, None, <<>>, None)

\* The value a call returns when it gives up: None, Vec::new(), Err(RMP);
\* the error payload for a comment-listing handler (main.rs 216, 240).
FailRet(o) ==
    CASE o = "overview" -> Ret("None", None, None, <<>>, None)
      [] o = "comments" -> Ret("Vec", None, None, <<>>, None)
      [] o = "token" -> Ret("Err", None, None, <<>>, None)
      [] o = "http_comments" -> ErrorPayload

\* The locals of the scoring part of professor_overview (rmp.rs 405-414)
\* and of the _weighted_score call it is in (539-563): resp; the window of
\* the running call with its offset and offsetted; the loop position i and
\* the accumulators; the (score, weight) pairs returned so far.
ScorerIdle ==
    [phase |-> "idle", resp |-> <<>>, offset |-> 0, offsetted |-> 0, i |-> 0,
     quality_ratings_sum |-> 0, total_weight |-> 0,
     all |-> [sum |-> 0, weight |-> 0], yr |-> [sum |-> 0, weight |-> 0]]

\* Controller::new()
Init ==
    /\ rmp_graphql_token = None
    /\ name_id_map = << >>
    /\ id_professor_map = << >>
    /\ data_lock = 0
    /\ professor_lock = << >>
    /\ pc = [p \in Procs |-> "idle"]
    /\ op = [p \in Procs |-> "token"]
    /\ name = [p \in Procs |-> <<>>]
    /\ pr = [p \in Procs |-> None]
    /\ token = [p \in Procs |-> None]
    /\ ret = [p \in Procs |-> Pending]
    /\ calls = 0
    /\ io = [p \in Procs |-> NoIo]
    /\ scorer = ScorerIdle

\* ------------------------------------------------- helpers of the handlers
LookupKeyRaw(n) == n

\* The key _name_to_professor looks a name up under.
LookupKey(n) == to_lowercase(n)

IndexHitNonEmpty(map, key) == key \in DOMAIN map /\ map[key] # <<>>

\* if let Some(ids) = data.name_id_map.get(name.as_str())
IndexHit(map, key) == key \in DOMAIN map

ScoreNeverCached(professor) == FALSE

\* if let Some(score) = professor.score.clone()
ScoreCached(professor) == IsSome(professor.score)

TokenNeverCached(cached) == FALSE

\* if let Some(token) = data.rmp_graphql_token.clone()
TokenCached(cached) == IsSome(cached)

StoreTokenFirstWins(cached, tok) == IF IsSome(cached) THEN cached ELSE Some(tok)

\* data.rmp_graphql_token = Some(token.clone())
StoreToken(cached, tok) == Some(tok)

\* Professor { rmp_id: id, score: None, .. } of one search hit.
NewProfessor(id, hit) ==
    [rmp_id |-> id, score |-> None, first_name |-> hit.first_name,
     last_name |-> hit.last_name, full_name |-> hit.full_name,
     department |-> hit.department]

RECURSIVE InsertRecordsOverwrite(_, _)
InsertRecordsOverwrite(map, res) ==
    IF res = <<>> THEN map
    ELSE LET o == ParseId(Head(res))
             next == IF IsSome(o)
                     THEN [k \in DOMAIN map \cup {Unwrap(o)} |->
                             IF k = Unwrap(o)
                             THEN NewProfessor(Unwrap(o), Head(res))
                             ELSE map[k]]
                     ELSE map
         IN  InsertRecordsOverwrite(next, Tail(res))

InsertRecordsFirstOnly(map, res) ==
    LET o == IF res = <<>> THEN None ELSE ParseId(Head(res))
    IN  IF IsSome(o) /\ Unwrap(o) \notin DOMAIN map
        THEN map @@ (Unwrap(o) :> NewProfessor(Unwrap(o), Head(res)))
        ELSE map

RECURSIVE InsertRecordsDefaultId(_, _)
InsertRecordsDefaultId(map, res) ==
    IF res = <<>> THEN map
    ELSE LET o == ParseId(Head(res))
             id == IF IsSome(o) THEN Unwrap(o) ELSE 0
             next == IF id \notin DOMAIN map
                     THEN map @@ (id :> NewProfessor(id, Head(res)))
                     ELSE map
         IN  InsertRecordsDefaultId(next, Tail(res))

\* for pr in res { if !contains_key(&id) { insert(id, ..) } }
RECURSIVE InsertRecords(_, _)
InsertRecords(map, res) ==
    IF res = <<>> THEN map
    ELSE LET o == ParseId(Head(res))
             next == IF IsSome(o) /\ Unwrap(o) \notin DOMAIN map
                     THEN map @@ (Unwrap(o) :> NewProfessor(Unwrap(o), Head(res)))
                     ELSE map
         IN  InsertRecords(next, Tail(res))

InsertIdsSkipEmpty(map, key, ids) ==
    IF ids = <<>> THEN map
    ELSE [k \in DOMAIN map \cup {key} |-> IF k = key THEN ids ELSE map[k]]

\* data.name_id_map.insert(name, ids): HashMap::insert replaces the value.
InsertIds(map, key, ids) ==
    [k \in DOMAIN map \cup {key} |-> IF k = key THEN ids ELSE map[k]]

IndexNegativeCached(map, key) ==
    [k \in DOMAIN map \cup {key} |-> IF k = key THEN <<>> ELSE map[k]]

\* What a failed search leaves in the identity index (`.ok()?` returns
\* before the insert).
IndexAfterSearchErr(map, key) == map

\* data.id_professor_map.get(&id).cloned() for id_opt.
Handle(id_opt, map) ==
    IF IsSome(id_opt) /\ Unwrap(id_opt) \in DOMAIN map THEN id_opt ELSE None

TokenClearedAfterFetchErr(cached) == None

\* The token cache after a failed token fetch (`?` and Err(RMP) return
\* without touching it).
TokenAfterFetchErr(cached) == cached

ScoreClearedAfterFetchErr(professor) == None

ScoreDefaultAfterFetchErr(professor) ==
    Some([quality |-> None, quality_yr |-> None])

\* professor.score after a failed ratings fetch (the if-let is skipped).
ScoreAfterFetchErr(professor) == professor.score

SearchGuardDropped(p) == 0

\* The owner of the data lock while call p awaits the search: the guard
\* taken at rmp.rs 436 is alive across the await of line 444.
SearchGuard(p) == p

AcquireNoExclusion(locks, id, p) == locks

AcquireAllRecords(locks, id, p) == [i \in DOMAIN locks |-> p]

AcquireOverviewOnly(locks, id, p) ==
    IF op[p] = "overview" THEN [locks EXCEPT ![id] = p] ELSE locks

\* pr.lock().await is granted to call p.
Acquire(locks, id, p) == [locks EXCEPT ![id] = p]

UnlockNever(p) == professor_lock

\* The record guard of call p is dropped.
Unlock(p) == [professor_lock EXCEPT ![Unwrap(pr[p])] = 0]

\* The call p goes on to await point l with locals handle h and token t.
Step(p, l, h, t) ==
    /\ pc' = [pc EXCEPT ![p] = l]
    /\ pr' = [pr EXCEPT ![p] = h]
    /\ token' = [token EXCEPT ![p] = t]
    /\ ret' = ret

\* The call p returns r; its locals are dropped.
Return(p, r) ==
    /\ pc' = [pc EXCEPT ![p] = "done"]
    /\ ret' = [ret EXCEPT ![p] = r]
    /\ pr' = [pr EXCEPT ![p] = None]
    /\ token' = [token EXCEPT ![p] = None]

\* End of _name_to_professor for call p with handle h (the data guard is
\* dropped): the callers go on to pr.lock() or give up.
Resolved(p, h) ==
    IF IsSome(h) THEN Step(p, "prof_lock", h, None)
    ELSE Return(p, FailRet(op[p]))

\* End of graphql_token for call p with Ok(tok): the route handler returns
\* it, _professor_comments sends the ratings request (rmp.rs 511-522).
TokenOk(p, tok, log) ==
    IF op[p] = "token"
    THEN /\ Return(p, Ret("Ok", None, None, <<>>, Some(tok)))
         /\ io' = [io EXCEPT ![p] = log]
    ELSE /\ Step(p, "ratings", pr[p], Some(tok))
         /\ io' = [io EXCEPT ![p] = [log EXCEPT !.ratings = "sent"]]

GiveUpSendsRatings(p) ==
    IF op[p] = "token"
    THEN Return(p, FailRet(op[p])) /\ professor_lock' = professor_lock
    ELSE Step(p, "ratings", pr[p], None) /\ professor_lock' = professor_lock

\* The call p gives up after _professor_comments or graphql_token failed:
\* the record guard, if held, is dropped.
GiveUp(p) ==
    /\ Return(p, FailRet(op[p]))
    /\ professor_lock' = IF op[p] = "token" THEN professor_lock ELSE Unlock(p)

\* ---------------------------------------------------------------- actions
\* A request arrives: professor_overview(n), professor_comments(n, _) or
\* graphql_token().
Start(p, o, n) ==
    /\ pc[p] \in {"idle", "done"}
    /\ calls < MaxCalls
    /\ calls' = calls + 1
    /\ op' = [op EXCEPT ![p] = o]
    /\ name' = [name EXCEPT ![p] = n]
    /\ ret' = [ret EXCEPT ![p] = Pending]
    /\ io' = [io EXCEPT ![p] = NoIo]
    /\ pc' = [pc EXCEPT ![p] = IF o = "token" THEN "tok_check" ELSE "n2p"]
    /\ UNCHANGED << scorer, ctrl, data_lock, professor_lock, pr, token >>

\* _name_to_professor, index hit: lock, look up, return (rmp.rs 436-442,
\* 480-484).
NameHit(p) ==
    /\ pc[p] = "n2p"
    /\ data_lock = 0
    /\ IndexHit(name_id_map, LookupKey(name[p]))
    /\ Resolved(p, Handle(First(name_id_map[LookupKey(name[p])]), id_professor_map))
    /\ UNCHANGED << scorer, ctrl, data_lock, professor_lock, op, name, calls, io >>

\* _name_to_professor, index miss: lock and send the search, keeping the
\* guard across the await (rmp.rs 436-444).
NameMiss(p) ==
    /\ pc[p] = "n2p"
    /\ data_lock = 0
    /\ ~IndexHit(name_id_map, LookupKey(name[p]))
    /\ data_lock' = SearchGuard(p)
    /\ Step(p, "search", None, None)
    /\ io' = [io EXCEPT ![p].search = "sent"]
    /\ UNCHANGED << scorer, ctrl, professor_lock, op, name, calls >>

\* The search fails: `.ok()?` returns None and drops the guard.
SearchErr(p) ==
    /\ pc[p] = "search"
    /\ data_lock' = 0
    /\ name_id_map' = IndexAfterSearchErr(name_id_map, LookupKey(name[p]))
    /\ Resolved(p, None)
    /\ io' = [io EXCEPT ![p].search = "err"]
    /\ UNCHANGED << scorer, rmp_graphql_token, id_professor_map, professor_lock, op,
                    name, calls >>

\* The search succeeds with hits res: index the ids, create the missing
\* records, return the first candidate's handle (rmp.rs 446-484).
SearchOk(p, res) ==
    /\ pc[p] = "search"
    /\ LET ids == CollectIds(res)
           records == InsertRecords(id_professor_map, res)
           fresh == DOMAIN records \ DOMAIN id_professor_map
       IN  /\ name_id_map' = InsertIds(name_id_map, LookupKey(name[p]), ids)
           /\ id_professor_map' = records
           /\ professor_lock' = professor_lock @@ [i \in fresh |-> 0]
           /\ Resolved(p, Handle(First(ids), records))
    /\ data_lock' = 0
    /\ io' = [io EXCEPT ![p].search = "ok"]
    /\ UNCHANGED << scorer, rmp_graphql_token, op, name, calls >>

\* pr.lock() is granted.  professor_overview returns the handle at once if
\* the record is scored (rmp.rs 399-403); otherwise, and always in
\* professor_comments (425-427), the call goes on to _professor_comments
\* and graphql_token holding the record guard.
ProfLock(p) ==
    /\ pc[p] = "prof_lock"
    /\ professor_lock[Unwrap(pr[p])] = 0
    /\ IF op[p] = "overview" /\ ScoreCached(id_professor_map[Unwrap(pr[p])])
       THEN /\ Return(p, Ret("Some", pr[p],
                              id_professor_map[Unwrap(pr[p])].score, <<>>, None))
            /\ professor_lock' = professor_lock
       ELSE /\ Step(p, "tok_check", pr[p], None)
            /\ professor_lock' = Acquire(professor_lock, Unwrap(pr[p]), p)
    /\ UNCHANGED << scorer, ctrl, data_lock, op, name, calls, io >>

\* graphql_token, first block: the cached token is returned (rmp.rs
\* 370-376).
TokenHit(p) ==
    /\ pc[p] = "tok_check"
    /\ data_lock = 0
    /\ TokenCached(rmp_graphql_token)
    /\ TokenOk(p, Unwrap(rmp_graphql_token), io[p])
    /\ UNCHANGED << scorer, ctrl, data_lock, professor_lock, op, name, calls >>

\* graphql_token, cold cache: the guard is dropped and the token page is
\* requested (rmp.rs 370-380).
TokenMiss(p) ==
    /\ pc[p] = "tok_check"
    /\ data_lock = 0
    /\ ~TokenCached(rmp_graphql_token)
    /\ Step(p, "tok_fetch", pr[p], None)
    /\ io' = [io EXCEPT ![p].token = "sent"]
    /\ UNCHANGED << scorer, ctrl, data_lock, professor_lock, op, name, calls >>

\* The token page request fails or carries no token (rmp.rs 380, 393).
TokenFetchErr(p) ==
    /\ pc[p] = "tok_fetch"
    /\ rmp_graphql_token' = TokenAfterFetchErr(rmp_graphql_token)
    /\ GiveUp(p)
    /\ io' = [io EXCEPT ![p].token = "err"]
    /\ UNCHANGED << scorer, name_id_map, id_professor_map, data_lock, op, name, calls >>

\* The token page carries token t (rmp.rs 384-385); the call now awaits the
\* data lock to store it.
TokenFetchOk(p, t) ==
    /\ pc[p] = "tok_fetch"
    /\ Step(p, "tok_store", pr[p], Some(t))
    /\ io' = [io EXCEPT ![p].token = "ok"]
    /\ UNCHANGED << scorer, ctrl, data_lock, professor_lock, op, name, calls >>

\* The fetched token is stored and returned (rmp.rs 387-390).
TokenStore(p) ==
    /\ pc[p] = "tok_store"
    /\ data_lock = 0
    /\ rmp_graphql_token' = StoreToken(rmp_graphql_token, Unwrap(token[p]))
    /\ TokenOk(p, Unwrap(token[p]), io[p])
    /\ UNCHANGED << scorer, name_id_map, id_professor_map, data_lock, professor_lock,
                    op, name, calls >>

\* The ratings request fails (rmp.rs 527): professor_overview returns None,
\* professor_comments an empty Vec.
RatingsErr(p) ==
    /\ pc[p] = "ratings"
    /\ id_professor_map' =
          [id_professor_map EXCEPT ![Unwrap(pr[p])].score =
              ScoreAfterFetchErr(id_professor_map[Unwrap(pr[p])])]
    /\ GiveUp(p)
    /\ io' = [io EXCEPT ![p].ratings = "err"]
    /\ UNCHANGED << scorer, rmp_graphql_token, name_id_map, data_lock, op, name, calls >>

\* The ratings request returns ratings: professor_overview scores the
\* record and returns its handle (rmp.rs 405-416), professor_comments
\* returns the ratings (427-428), a comment-listing handler the comments
\* made of them (main.rs 198-211).
RatingsOk(p, ratings, now) ==
    /\ pc[p] = "ratings"
    /\ IF op[p] = "overview"
       THEN LET professor_score == MakeScore(ratings, now)
            IN  /\ id_professor_map' =
                      [id_professor_map EXCEPT ![Unwrap(pr[p])].score =
                          Some(professor_score)]
                /\ Return(p, Ret("Some", pr[p], Some(professor_score), <<>>, None))
       ELSE /\ id_professor_map' = id_professor_map
            /\ Return(p, IF op[p] = "http_comments"
                         THEN CommentsPayload(ratings)
                         ELSE Ret("Vec", None, None, ratings, None))
    /\ professor_lock' = Unlock(p)
    /\ io' = [io EXCEPT ![p].ratings = "ok", ![p].body = ratings]
    /\ UNCHANGED << scorer, rmp_graphql_token, name_id_map, data_lock, op, name, calls >>

Next ==
    \/ \E p \in Procs : \E o \in {"overview", "comments"} : \E n \in Names :
          Start(p, o, n)
    \/ \E p \in Procs : Start(p, "token", <<>>)
    \/ \E p \in Procs : NameHit(p)
    \/ \E p \in Procs : NameMiss(p)
    \/ \E p \in Procs : SearchErr(p)
    \/ \E p \in Procs : \E res \in SearchResults : SearchOk(p, res)
    \/ \E p \in Procs : ProfLock(p)
    \/ \E p \in Procs : TokenHit(p)
    \/ \E p \in Procs : TokenMiss(p)
    \/ \E p \in Procs : TokenFetchErr(p)
    \/ \E p \in Procs : \E t \in Tokens : TokenFetchOk(p, t)
    \/ \E p \in Procs : TokenStore(p)
    \/ \E p \in Procs : RatingsErr(p)
    \/ \E p \in Procs : \E ratings \in RatingLists : \E now \in Nows :
          RatingsOk(p, ratings, now)

Spec == Init /\ [][Next]_vars

TypeOK ==
    /\ data_lock \in {0} \cup Procs
    /\ DOMAIN professor_lock = DOMAIN id_professor_map
    /\ \A p \in Procs : op[p] \in Ops

\* The scenario of N parallel first-time professor_overview calls for one
\* name (in either casing) against an upstream that answers every request:
\* each client calls once, no request fails.  (The token cache is never hit
\* here: only the one call that scores the record asks for a token.)
SameNames == { <<"J", "D">>, <<"j", "d">> }

NextOverview ==
    \/ \E p \in Procs : \E n \in SameNames : pc[p] = "idle" /\ Start(p, "overview", n)
    \/ \E p \in Procs : NameHit(p)
    \/ \E p \in Procs : NameMiss(p)
    \/ \E p \in Procs : \E res \in SearchResults : SearchOk(p, res)
    \/ \E p \in Procs : ProfLock(p)
    \/ \E p \in Procs : TokenMiss(p)
    \/ \E p \in Procs : \E t \in Tokens : TokenFetchOk(p, t)
    \/ \E p \in Procs : TokenStore(p)
    \/ \E p \in Procs : \E ratings \in RatingLists : \E now \in Nows :
          RatingsOk(p, ratings, now)

SpecOverview == Init /\ [][NextOverview]_vars

\* The route layer's comment-listing handlers (main.rs professor_comments
\* and professor_course_comments) under any interleaving and any upstream
\* outcome.  Resolution is name_to_professor, the same code as
\* _name_to_professor with both map locks taken together; the fetch is
\* get_professor_comments, here the Controller's _professor_comments.
NextRoutes ==
    \/ \E p \in Procs : \E n \in Names : Start(p, "http_comments", n)
    \/ \E p \in Procs : NameHit(p)
    \/ \E p \in Procs : NameMiss(p)
    \/ \E p \in Procs : SearchErr(p)
    \/ \E p \in Procs : \E res \in SearchResults : SearchOk(p, res)
    \/ \E p \in Procs : ProfLock(p)
    \/ \E p \in Procs : TokenHit(p)
    \/ \E p \in Procs : TokenMiss(p)
    \/ \E p \in Procs : TokenFetchErr(p)
    \/ \E p \in Procs : \E t \in Tokens : TokenFetchOk(p, t)
    \/ \E p \in Procs : TokenStore(p)
    \/ \E p \in Procs : RatingsErr(p)
    \/ \E p \in Procs : \E ratings \in RatingLists : \E now \in Nows :
          RatingsOk(p, ratings, now)

SpecRoutes == Init /\ [][NextRoutes]_vars

\* The scenario of overview calls for two professors that are resolved and
\* unscored: both names are indexed, each with its own record (the calls
\* that indexed them got no Score, their token request having failed), and
\* each client makes one professor_overview call for one of the names.  The
\* counter of calls starts again here.
ResolvedNames == { <<"J", "D">>, <<"B">> }

InitParallel ==
    /\ rmp_graphql_token = None
    /\ name_id_map = (<<"j", "d">> :> <<1>>) @@ (<<"b">> :> <<2>>)
    /\ id_professor_map =
          (1 :> NewProfessor(1, Hit(<<"teacher:", "1">>, <<"J">>, <<"D">>, "Math")))
          @@ (2 :> NewProfessor(2, Hit(<<"teacher:", "2">>, <<"B">>, <<"O">>, "Math")))
    /\ data_lock = 0
    /\ professor_lock = (1 :> 0) @@ (2 :> 0)
    /\ pc = [p \in Procs |-> "idle"]
    /\ op = [p \in Procs |-> "token"]
    /\ name = [p \in Procs |-> <<>>]
    /\ pr = [p \in Procs |-> None]
    /\ token = [p \in Procs |-> None]
    /\ ret = [p \in Procs |-> Pending]
    /\ calls = 0
    /\ io = [p \in Procs |-> NoIo]
    /\ scorer = ScorerIdle

NextParallel ==
    \/ \E p \in Procs : \E n \in ResolvedNames :
          pc[p] = "idle" /\ Start(p, "overview", n)
    \/ \E p \in Procs : NameHit(p)
    \/ \E p \in Procs : ProfLock(p)
    \/ \E p \in Procs : TokenHit(p)
    \/ \E p \in Procs : TokenMiss(p)
    \/ \E p \in Procs : TokenFetchErr(p)
    \/ \E p \in Procs : \E t \in Tokens : TokenFetchOk(p, t)
    \/ \E p \in Procs : TokenStore(p)
    \/ \E p \in Procs : RatingsErr(p)
    \/ \E p \in Procs : \E ratings \in RatingLists : \E now \in Nows :
          RatingsOk(p, ratings, now)

SpecParallel == InitParallel /\ [][NextParallel]_vars

\* Any interleaving of the three operations under fair scheduling: every
\* upstream request is eventually answered (with success or failure), and
\* a call that waits for a lock gets it if the lock is free again and
\* again (tokio's Mutex queues its waiters).  Only what decides the path of
\* a call is drawn here: a search answers with no hit, an unparsable hit
\* or one or two professors; the token page carries one token; the
\* ratings answer is empty.
LiveNames == { <<"J", "D">>, <<"B">> }

LiveSearchResults ==
    { <<>>,
      << Hit(<<"teacher:", "x">>, <<"N">>, <<"N">>, "Math") >>,
      << Hit(<<"teacher:", "1">>, <<"J">>, <<"D">>, "Math") >>,
      << Hit(<<"teacher:", "2">>, <<"B">>, <<"O">>, "Math"),
         Hit(<<"teacher:", "1">>, <<"J">>, <<"D">>, "Math") >> }

\* The upstream answers a request of call p.
UpstreamReturns(p) ==
    \/ SearchErr(p)
    \/ \E res \in LiveSearchResults : SearchOk(p, res)
    \/ TokenFetchErr(p)
    \/ TokenFetchOk(p, "tokA")
    \/ RatingsErr(p)
    \/ RatingsOk(p, <<>>, NowBase)

\* Call p is granted the lock it waits for and runs to its next await.
LockGranted(p) ==
    \/ NameHit(p)
    \/ NameMiss(p)
    \/ ProfLock(p)
    \/ TokenHit(p)
    \/ TokenMiss(p)
    \/ TokenStore(p)

NextLive ==
    \/ \E p \in Procs : \E o \in {"overview", "comments"} : \E n \in LiveNames :
          Start(p, o, n)
    \/ \E p \in Procs : Start(p, "token", <<>>)
    \/ \E p \in Procs : UpstreamReturns(p)
    \/ \E p \in Procs : LockGranted(p)

Fairness ==
    \A p \in Procs : WF_vars(UpstreamReturns(p)) /\ SF_vars(LockGranted(p))

SpecLive == Init /\ [][NextLive]_vars /\ Fairness

\* ------------------------------------------------------ scoring, by steps
\* The scoring part of professor_overview (rmp.rs 405-416) with the loop of
\* _weighted_score taken one iteration at a time.  RatingsOk is the same
\* code in one step.

\* Ratings the upstream can answer with: dated now, after now, exactly at
\* and just before the cutoff of each window, and before 1970; with and
\* without thumbs.
ScorerPool ==
    { Rating(4, 4, 0, 0, NowBase),
      Rating(5, 5, 40, 0, NowBase),
      Rating(4, 2, 0, 2, NowBase),
      Rating(5, 5, 0, 0, NowBase + OFFSET_YR),
      Rating(3, 3, 0, 0, NowBase - OFFSET_YR),
      Rating(2, 2, 0, 0, NowBase - OFFSET_ALL),
      Rating(1, 1, 0, 0, (NowBase - OFFSET_ALL) - 1),
      Rating(1, 1, 0, 0, 0 - 1) }

ScorerLists == SeqsUpTo(ScorerPool, MaxRatings)

\* Readings of SystemTime::now(); the two _weighted_score calls of one
\* overview call each read the clock.
ScorerNows == { NowBase, NowBase + 1 }

\* A state of the Controller in which the overview call of client 1 for
\* "jd" holds the lock of record 1 and has its ratings request in flight.
InitScorer ==
    /\ rmp_graphql_token = Some("tokA")
    /\ name_id_map = (<<"j", "d">> :> <<1>>)
    /\ id_professor_map =
          (1 :> NewProfessor(1, Hit(<<"teacher:", "1">>, <<"J">>, <<"D">>, "Math")))
    /\ data_lock = 0
    /\ professor_lock = (1 :> 1)
    /\ pc = [p \in Procs |-> IF p = 1 THEN "ratings" ELSE "idle"]
    /\ op = [p \in Procs |-> IF p = 1 THEN "overview" ELSE "token"]
    /\ name = [p \in Procs |-> IF p = 1 THEN <<"j", "d">> ELSE <<>>]
    /\ pr = [p \in Procs |-> IF p = 1 THEN Some(1) ELSE None]
    /\ token = [p \in Procs |-> IF p = 1 THEN Some("tokA") ELSE None]
    /\ ret = [p \in Procs |-> Pending]
    /\ calls = 1
    /\ io = [p \in Procs |->
               IF p = 1
               THEN [search |-> "ok", token |-> "ok", ratings |-> "sent",
                     body |-> <<>>]
               ELSE NoIo]
    /\ scorer = ScorerIdle

\* if let Ok(resp) = self._professor_comments(..).await (rmp.rs 405)
ScorerAnswer(p, resp) ==
    /\ pc[p] = "ratings"
    /\ op[p] = "overview"
    /\ scorer.phase = "idle"
    /\ scorer' = [scorer EXCEPT !.phase = "answered", !.resp = resp]
    /\ pc' = [pc EXCEPT ![p] = "scoring"]
    /\ io' = [io EXCEPT ![p].ratings = "ok", ![p].body = resp]
    /\ UNCHANGED << ctrl, data_lock, professor_lock, op, name, pr, token, ret,
                    calls >>

\* _weighted_score is entered, first for the long window, then for the
\* one-year window: the accumulators start at 0.0 and offsetted is taken
\* from the clock (rmp.rs 406-407, 540-543).
ScorerBegin(p, now) ==
    /\ pc[p] = "scoring"
    /\ scorer.phase \in {"answered", "all_returned"}
    /\ LET first == scorer.phase = "answered"
           offset == IF first THEN OFFSET_ALL ELSE OFFSET_YR
       IN  scorer' = [scorer EXCEPT !.phase = IF first THEN "all" ELSE "yr",
                                    !.offset = offset,
                                    !.offsetted = now - offset,
                                    !.i = 1,
                                    !.quality_ratings_sum = 0,
                                    !.total_weight = 0]
    /\ UNCHANGED << ctrl, data_lock, professor_lock, pc, op, name, pr, token,
                    ret, calls, io >>

\* One iteration of `for r in data` (rmp.rs 545-560).
ScorerLoop(p) ==
    /\ pc[p] = "scoring"
    /\ scorer.phase \in {"all", "yr"}
    /\ scorer.i <= Len(scorer.resp)
    /\ LET acc == ScoreIter([sum |-> scorer.quality_ratings_sum,
                             weight |-> scorer.total_weight],
                            scorer.resp[scorer.i], scorer.offsetted,
                            scorer.offset)
       IN  scorer' = [scorer EXCEPT !.i = @ + 1,
                                    !.quality_ratings_sum = acc.sum,
                                    !.total_weight = acc.weight]
    /\ UNCHANGED << ctrl, data_lock, professor_lock, pc, op, name, pr, token,
                    ret, calls, io >>

\* (quality_ratings_sum, total_weight) is returned (rmp.rs 562) and bound
\* to (score, weight) or (score_yr, weight_yr).
ScorerReturn(p) ==
    /\ pc[p] = "scoring"
    /\ scorer.phase \in {"all", "yr"}
    /\ scorer.i > Len(scorer.resp)
    /\ LET result == [sum |-> scorer.quality_ratings_sum,
                      weight |-> scorer.total_weight]
       IN  scorer' = IF scorer.phase = "all"
                     THEN [scorer EXCEPT !.phase = "all_returned", !.all = result]
                     ELSE [scorer EXCEPT !.phase = "yr_returned", !.yr = result]
    /\ UNCHANGED << ctrl, data_lock, professor_lock, pc, op, name, pr, token,
                    ret, calls, io >>

\* The Score is built, stored in the record and the handle returned
\* (rmp.rs 409-416).
ScorerPublish(p) ==
    /\ pc[p] = "scoring"
    /\ scorer.phase = "yr_returned"
    /\ LET professor_score == Score(scorer.all.sum, scorer.all.weight,
                                    scorer.yr.sum, scorer.yr.weight)
       IN  /\ id_professor_map' =
                 [id_professor_map EXCEPT ![Unwrap(pr[p])].score =
                     Some(professor_score)]
           /\ Return(p, Ret("Some", pr[p], Some(professor_score), <<>>, None))
    /\ professor_lock' = Unlock(p)
    /\ scorer' = [scorer EXCEPT !.phase = "done"]
    /\ UNCHANGED << rmp_graphql_token, name_id_map, data_lock, op, name, calls,
                    io >>

NextScorer ==
    \/ \E p \in Procs : \E resp \in ScorerLists : ScorerAnswer(p, resp)
    \/ \E p \in Procs : \E now \in ScorerNows : ScorerBegin(p, now)
    \/ \E p \in Procs : ScorerLoop(p)
    \/ \E p \in Procs : ScorerReturn(p)
    \/ \E p \in Procs : ScorerPublish(p)

SpecScorer == InitScorer /\ [][NextScorer]_vars

\* ----------------------------------------------------------------- claims
\* The record a call works on or has returned.
CallHandle(p) == IF pc[p] = "done" THEN ret[p].pr ELSE pr[p]

\* The calls that have sent a ratings request for record id.
Fetchers(id) ==
    { p \in Procs : io[p].ratings # "none" /\ CallHandle(p) = Some(id) }

\* C1: when every client makes one first-time professor_overview call for
\* the same name and no upstream request fails, at most one ratings request
\* is ever sent per professor, every call that returns a handle returns it
\* with the record's Score, exactly one ratings request has then been sent,
\* and all returned Scores of that professor are equal; a call returns
\* nothing only when the search produced no candidate.
C1_OneFetchSameScore ==
    /\ \A id \in DOMAIN id_professor_map : Cardinality(Fetchers(id)) <= 1
    /\ \A p \in Procs : pc[p] = "done" =>
          IF ret[p].tag = "Some"
          THEN /\ Cardinality(Fetchers(Unwrap(ret[p].pr))) = 1
               /\ IsSome(ret[p].score)
               /\ ret[p].score = id_professor_map[Unwrap(ret[p].pr)].score
               /\ \A q \in Procs :
                     (pc[q] = "done" /\ ret[q].tag = "Some" /\ ret[q].pr = ret[p].pr)
                        => ret[q].score = ret[p].score
          ELSE /\ ret[p].tag = "None"
               /\ name_id_map[LookupKey(name[p])] = <<>>

\* Every client has returned the same scored professor, with a published
\* one-year quality, after a single ratings request.
C1_Witness ==
    /\ calls = NumProcs
    /\ \A p \in Procs :
          /\ pc[p] = "done"
          /\ ret[p].tag = "Some"
          /\ ret[p].pr = Some(1)
          /\ IsSome(Unwrap(ret[p].score).quality_yr)
    /\ Cardinality(Fetchers(1)) = 1

\* The step of an overview call that finds its record scored.
C2_CacheHitStep ==
    \A p \in Procs :
        (/\ pc[p] = "prof_lock"
         /\ op[p] = "overview"
         /\ pc'[p] # "prof_lock"
         /\ IsSome(id_professor_map[Unwrap(pr[p])].score))
        => /\ pc'[p] = "done"
           /\ ret'[p] = Ret("Some", pr[p], id_professor_map[Unwrap(pr[p])].score,
                            <<>>, None)
           /\ io'[p] = io[p]
           /\ io[p].token = "none" /\ io[p].ratings = "none"
           /\ ctrl' = ctrl

\* All completed overview calls of one professor report one Score.
C2_SameScore ==
    \A p, q \in Procs :
        (/\ pc[p] = "done" /\ ret[p].tag = "Some"
         /\ pc[q] = "done" /\ ret[q].tag = "Some"
         /\ ret[p].pr = ret[q].pr)
        => ret[p].score = ret[q].score

\* C2: a professor_overview call that finds its resolved record scored
\* returns at once the handle with that Score, sends no token or ratings
\* request and changes no cached state; so all completed overview calls of
\* one professor, in sequence or not, report the same Score.
C2_Idempotent == [][C2_CacheHitStep]_vars /\ []C2_SameScore

\* One overview call fetched and scored professor 1; another call for the
\* same name found the index entry and the Score and returned it without a
\* request of its own.
C2_Witness ==
    \E p, q \in Procs :
        /\ pc[p] = "done" /\ ret[p].tag = "Some" /\ io[p].ratings = "ok"
        /\ pc[q] = "done" /\ ret[q].tag = "Some" /\ io[q] = NoIo
        /\ name[p] = name[q]
        /\ ret[p].pr = Some(1) /\ ret[q] = ret[p]
        /\ IsSome(Unwrap(ret[q].score).quality)

\* What one step may do to the Scores that are set.
C3_ScoreStep ==
    \A id \in DOMAIN id_professor_map :
        IsSome(id_professor_map[id].score)
        => /\ id \in DOMAIN id_professor_map'
           /\ id_professor_map'[id].score = id_professor_map[id].score

\* C3: a record's Score, once set, is never changed or unset by any step,
\* and the record stays in the map.
C3_ScoreWrittenOnce == [][C3_ScoreStep]_vars

\* A professor_comments call has a ratings request in flight for a record
\* that is already scored.
C3_Witness ==
    \E p \in Procs :
        /\ op[p] = "comments" /\ pc[p] = "ratings"
        /\ pr[p] = Some(1)
        /\ IsSome(id_professor_map[1].score)

\* The letters of the names, upper and lower case.
CasePairs == { <<"J", "j">>, <<"D", "d">>, <<"B", "b">> }

\* One letter in either case.
SameLetter(a, b) == a = b \/ <<a, b>> \in CasePairs \/ <<b, a>> \in CasePairs

\* Equality of names up to letter case.
EqIgnoreCase(s, t) ==
    Len(s) = Len(t) /\ \A i \in 1..Len(s) : SameLetter(s[i], t[i])

\* The step of a resolution of a name some casing of which is indexed.
C4_Step ==
    \A p \in Procs :
        (/\ pc[p] = "n2p"
         /\ pc'[p] # "n2p"
         /\ \E k \in DOMAIN name_id_map : EqIgnoreCase(k, name[p]))
        => \E k \in DOMAIN name_id_map :
              /\ EqIgnoreCase(k, name[p])
              /\ io'[p].search = "none"
              /\ name_id_map' = name_id_map
              /\ IF name_id_map[k] = <<>>
                 THEN pc'[p] = "done" /\ ret'[p] = FailRet(op[p])
                 ELSE pc'[p] = "prof_lock" /\ pr'[p] = Some(name_id_map[k][1])

\* No two index entries differ only in letter case.
C4_Keys ==
    \A k1, k2 \in DOMAIN name_id_map : EqIgnoreCase(k1, k2) => k1 = k2

\* C4: the identity index holds at most one entry per name up to letter
\* case, and a resolution of a name of which some casing is indexed sends
\* no search, leaves the index alone and yields the first candidate of that
\* entry (nothing if the entry is empty).
C4_CaseInsensitive == [][C4_Step]_vars /\ []C4_Keys

\* A call for "JD" searched and indexed the name; a call for "jd" resolved
\* to the same record without a search.
C4_Witness ==
    \E p, q \in Procs :
        /\ name[p] = <<"J", "D">> /\ io[p].search = "ok"
        /\ name[q] = <<"j", "d">> /\ io[q].search = "none"
        /\ pc[p] = "prof_lock" /\ pc[q] = "prof_lock"
        /\ pr[p] = Some(2) /\ pr[q] = pr[p]

\* The step in which a call's search fails.
C5_FailStep ==
    \A p \in Procs :
        (io[p].search = "sent" /\ io'[p].search = "err")
        => /\ ctrl' = ctrl
           /\ data_lock' = 0
           /\ pc'[p] = "done"
           /\ ret'[p] = FailRet(op[p])
           /\ \A k \in DOMAIN name_id_map' : ~EqIgnoreCase(k, name[p])

\* The step of a resolution of a name no casing of which is indexed.
C5_RetryStep ==
    \A p \in Procs :
        (/\ pc[p] = "n2p"
         /\ pc'[p] # "n2p"
         /\ \A k \in DOMAIN name_id_map : ~EqIgnoreCase(k, name[p]))
        => pc'[p] = "search" /\ io'[p].search = "sent"

\* C5: the step in which a call's search fails returns nothing (None, or
\* the empty Vec of professor_comments), changes neither the identity index
\* nor the record map nor the token, frees the data lock and leaves the
\* name unindexed; and a resolution of a name no casing of which is indexed
\* sends a search.
C5_SearchFailureNotCached == [][C5_FailStep /\ C5_RetryStep]_vars

\* An overview call got nothing from a failed search, nothing is cached,
\* and a later call for the same name has a new search in flight.
C5_Witness ==
    \E p, q \in Procs :
        /\ pc[q] = "done" /\ io[q].search = "err" /\ ret[q].tag = "None"
        /\ pc[p] = "search" /\ name[p] = name[q]
        /\ name_id_map = << >> /\ id_professor_map = << >>

\* The elements of a sequence.
Range(f) == { f[i] : i \in DOMAIN f }

\* The step in which a call's search succeeds.
C6_InsertStep ==
    \A p \in Procs :
        (io[p].search = "sent" /\ io'[p].search = "ok")
        => LET key == LookupKey(name[p])
               old == DOMAIN id_professor_map
           IN  /\ key \notin DOMAIN name_id_map
               /\ key \in DOMAIN name_id_map'
               /\ DOMAIN id_professor_map' = old \cup Range(name_id_map'[key])
               /\ \A id \in old : id_professor_map'[id] = id_professor_map[id]
               /\ \A id \in DOMAIN id_professor_map' \ old :
                     /\ id_professor_map'[id].score = None
                     /\ id_professor_map'[id].rmp_id = id

\* Every record is stored under its own identifier.
C6_Keyed ==
    \A id \in DOMAIN id_professor_map : id_professor_map[id].rmp_id = id

\* C6: the step in which a call's search succeeds indexes the name, leaves
\* every record that already exists exactly as it was (name fields,
\* department, Score), and adds one unscored record, keyed by its own id,
\* for each indexed identifier that had none, and no other record; records
\* are keyed by their identifier, so names that resolve to one identifier
\* share its record.
C6_FirstWriteWins == [][C6_InsertStep]_vars /\ []C6_Keyed

\* One client scored professor 1 under the name "jd"; its next call, for
\* "B", got professor 1 from a new search and holds the same, still scored,
\* record.
C6_Witness ==
    \E p \in Procs :
        /\ \A q \in Procs \ {p} : pc[q] = "idle"
        /\ pc[p] = "prof_lock" /\ name[p] = <<"B">> /\ io[p].search = "ok"
        /\ pr[p] = Some(1)
        /\ DOMAIN name_id_map = { <<"j", "d">>, <<"b">> }
        /\ IsSome(id_professor_map[1].score)

\* The step in which graphql_token checks the cache.
C7_CheckStep ==
    \A p \in Procs :
        (pc[p] = "tok_check" /\ pc'[p] # "tok_check")
        => /\ rmp_graphql_token' = rmp_graphql_token
           /\ IF IsSome(rmp_graphql_token)
              THEN /\ io'[p].token = "none"
                   /\ pc'[p] # "tok_fetch"
                   /\ IF op[p] = "token"
                      THEN /\ pc'[p] = "done"
                           /\ ret'[p] = Ret("Ok", None, None, <<>>, rmp_graphql_token)
                      ELSE token'[p] = rmp_graphql_token
              ELSE pc'[p] = "tok_fetch" /\ io'[p].token = "sent"

\* A call's token request is sent at most once and then answered.
C7_OnceStep ==
    \A p \in Procs :
        io'[p].token # io[p].token
        => \/ io[p].token = "none" /\ io'[p].token = "sent"
           \/ io[p].token = "sent" /\ io'[p].token \in {"ok", "err"}
           \/ pc[p] = "done" /\ io'[p].token = "none"

\* Only the store of a fetched token writes the cache.
C7_StoreStep ==
    rmp_graphql_token' # rmp_graphql_token
    => \E p \in Procs :
          /\ pc[p] = "tok_store" /\ io[p].token = "ok"
          /\ rmp_graphql_token' = token[p]

\* The step in which a call's token request fails.
C7_FailStep ==
    \A p \in Procs :
        (io[p].token = "sent" /\ io'[p].token = "err")
        => /\ rmp_graphql_token' = rmp_graphql_token
           /\ pc'[p] = "done"
           /\ ret'[p] = FailRet(op[p])

\* C7: when graphql_token checks a populated cache it returns the cached
\* token, sends no token request and leaves the cache alone; when it checks
\* an empty cache it sends one token request; the cache is written only by
\* a call whose token request succeeded, with the token it fetched; a call
\* whose token request fails returns its failure value (Err for
\* graphql_token) and leaves the cache as it was.
C7_TokenCache ==
    [][C7_CheckStep /\ C7_OnceStep /\ C7_StoreStep /\ C7_FailStep]_vars

\* A graphql_token call fetched and stored tokA; a second graphql_token call
\* returned tokA from the cache without a request.
C7_Witness ==
    \E p, q \in Procs :
        /\ op[p] = "token" /\ pc[p] = "done" /\ io[p].token = "ok"
        /\ op[q] = "token" /\ pc[q] = "done" /\ io[q].token = "none"
        /\ ret[q] = Ret("Ok", None, None, <<>>, Some("tokA"))
        /\ ret[p] = ret[q]
        /\ rmp_graphql_token = Some("tokA")

\* The step of a cold cache check made while other calls are fetching.
C8_NoDedupStep ==
    \A p \in Procs :
        (/\ pc[p] = "tok_check"
         /\ pc'[p] # "tok_check"
         /\ ~IsSome(rmp_graphql_token)
         /\ \E q \in Procs \ {p} : pc[q] \in {"tok_fetch", "tok_store"})
        => pc'[p] = "tok_fetch" /\ io'[p].token = "sent"

\* A store replaces whatever the cache holds.
C8_LastWriterStep ==
    \A p \in Procs :
        (pc[p] = "tok_store" /\ pc'[p] # "tok_store")
        => rmp_graphql_token' = token[p]

\* C8: a call that checks the empty token cache sends its own token request
\* even while other calls have theirs in flight or fetched and not yet
\* stored, and every call that fetched a token stores it over whatever the
\* cache holds, so the cache holds the token of the last call to store.
C8_TokenRace == [][C8_NoDedupStep /\ C8_LastWriterStep]_vars

\* Two graphql_token calls both fetched, one tokA and one tokB; the cache
\* holds tokB.
C8_Witness ==
    \E p, q \in Procs :
        /\ op[p] = "token" /\ pc[p] = "done" /\ io[p].token = "ok"
        /\ op[q] = "token" /\ pc[q] = "done" /\ io[q].token = "ok"
        /\ ret[p].token = Some("tokA")
        /\ ret[q].token = Some("tokB")
        /\ rmp_graphql_token = Some("tokB")

\* A step that keeps the cached token, if there is one.
C9_NeverRefreshedStep ==
    IsSome(rmp_graphql_token) => rmp_graphql_token' = rmp_graphql_token

\* C9 as stated: once the token cache holds a token, no step changes the
\* cached value.
C9_NeverRefreshed == [][C9_NeverRefreshedStep]_vars

\* A step never empties the cache, and replaces a cached token only by a
\* call's store of the token it fetched.
C9_KeptStep ==
    IsSome(rmp_graphql_token)
    => /\ IsSome(rmp_graphql_token')
       /\ rmp_graphql_token' # rmp_graphql_token
          => \E p \in Procs :
                /\ pc[p] = "tok_store" /\ pc'[p] # "tok_store"
                /\ rmp_graphql_token' = token[p]

\* Only a check of the empty cache leads to a token request, and only a
\* token request leads to a store.
C9_ColdOnlyStep ==
    \A p \in Procs :
        /\ (pc'[p] = "tok_fetch" /\ pc[p] # "tok_fetch")
           => (pc[p] = "tok_check" /\ ~IsSome(rmp_graphql_token))
        /\ (pc'[p] = "tok_store" /\ pc[p] # "tok_store")
           => pc[p] = "tok_fetch"

\* C9 as amended: once the token cache holds a token it is never emptied,
\* and no call that checks it while it holds a token fetches or stores one;
\* the cached value changes only when a call that had found the cache empty
\* stores the token it fetched.
C9_NoRefreshAfterHit == [][C9_KeptStep /\ C9_ColdOnlyStep]_vars

\* A graphql_token call cached tokB; a professor_overview call then took
\* tokB from the cache for its ratings request, now in flight.
C9_Witness ==
    \E p, q \in Procs :
        /\ op[p] = "token" /\ pc[p] = "done" /\ io[p].token = "ok"
        /\ ret[p].token = Some("tokB")
        /\ op[q] = "overview" /\ pc[q] = "ratings" /\ io[q].token = "none"
        /\ token[q] = Some("tokB")
        /\ rmp_graphql_token = Some("tokB")

\* An upstream request of call p fails in this step.
C10_Failed(p) ==
    \/ io[p].search = "sent" /\ io'[p].search = "err"
    \/ io[p].token = "sent" /\ io'[p].token = "err"
    \/ io[p].ratings = "sent" /\ io'[p].ratings = "err"

\* The step in which an upstream request of an overview call fails.
C10_FailStep ==
    \A p \in Procs :
        (op[p] = "overview" /\ C10_Failed(p))
        => /\ pc'[p] = "done"
           /\ ret'[p] = Ret("None", None, None, <<>>, None)
           /\ ctrl' = ctrl
           /\ IsSome(pr[p])
              => /\ ~IsSome(id_professor_map'[Unwrap(pr[p])].score)
                 /\ professor_lock'[Unwrap(pr[p])] = 0

\* The step of an overview call that finds its record unscored.
C10_RetryStep ==
    \A p \in Procs :
        (/\ op[p] = "overview"
         /\ pc[p] = "prof_lock"
         /\ pc'[p] # "prof_lock"
         /\ ~IsSome(id_professor_map[Unwrap(pr[p])].score))
        => pc'[p] = "tok_check"

\* professor_overview has returned None exactly after a failure or for a
\* name without candidate.
C10_NoneOnlyOnFailure ==
    \A p \in Procs :
        (op[p] = "overview" /\ pc[p] = "done")
        => LET failed == \/ io[p].search = "err"
                         \/ io[p].token = "err"
                         \/ io[p].ratings = "err"
                         \/ name_id_map[LookupKey(name[p])] = <<>>
           IN  (ret[p].tag = "None") <=> failed

\* C10: the step in which a professor_overview call's search, token request
\* or ratings request fails returns None and changes no cached state; after
\* a failed token or ratings request the record is still unscored and its
\* lock is free; an overview call that finds its record unscored goes on to
\* fetch; and professor_overview returns None only after such a failure or
\* for a name with no candidate.
C10_OverviewFailure ==
    [][C10_FailStep /\ C10_RetryStep]_vars /\ []C10_NoneOnlyOnFailure

\* An overview call returned None after its ratings request failed; the
\* record is unscored, and another overview call for the same name has a
\* new ratings request in flight.
C10_Witness ==
    \E p, q \in Procs :
        /\ op[p] = "overview" /\ pc[p] = "done" /\ io[p].ratings = "err"
        /\ ret[p].tag = "None"
        /\ op[q] = "overview" /\ pc[q] = "ratings" /\ name[q] = name[p]
        /\ ~IsSome(id_professor_map[Unwrap(pr[q])].score)

\* A step taken by call p while it runs professor_comments.
C11_Runs(p) ==
    op[p] = "comments" /\ pc[p] \notin {"idle", "done"} /\ pc'[p] # pc[p]

\* The step in which the ratings request of a comments call is answered:
\* the call returns exactly the ratings the gateway answered with.
C11_OkStep ==
    \A p \in Procs :
        (op[p] = "comments" /\ io[p].ratings = "sent" /\ io'[p].ratings = "ok")
        => /\ pc'[p] = "done"
           /\ ret'[p] = Ret("Vec", None, None, io'[p].body, None)

\* The step in which an upstream request of a comments call fails, or its
\* resolution finds no candidate: the call returns the empty list.
C11_FailStep ==
    \A p \in Procs :
        (/\ op[p] = "comments"
         /\ \/ C10_Failed(p)
            \/ pc[p] \in {"n2p", "search"} /\ pc'[p] = "done")
        => /\ pc'[p] = "done"
           /\ ret'[p] = Ret("Vec", None, None, <<>>, None)

\* No step of a comments call sets or changes the Score of a record, and
\* a record it creates is unscored.
C11_ScoreStep ==
    \A p \in Procs :
        C11_Runs(p)
        => \A id \in DOMAIN id_professor_map' :
              id_professor_map'[id].score =
                 IF id \in DOMAIN id_professor_map
                 THEN id_professor_map[id].score
                 ELSE None

\* A comments call that holds a resolved record goes on to fetch, whether
\* or not the record is scored, and sends the ratings request as soon as it
\* has a token.
C11_FetchStep ==
    \A p \in Procs :
        C11_Runs(p)
        => /\ pc[p] = "prof_lock" => pc'[p] = "tok_check"
           /\ (pc[p] \in {"tok_check", "tok_store"} /\ IsSome(token'[p]))
                 => (pc'[p] = "ratings" /\ io'[p].ratings = "sent")

\* A completed comments call has returned a list, and a non-empty one only
\* from an answered ratings request of its own.
C11_Returned ==
    \A p \in Procs :
        (op[p] = "comments" /\ pc[p] = "done")
        => /\ ret[p].tag = "Vec"
           /\ ret[p].ratings # <<>> => io[p].ratings = "ok"
           /\ io[p].ratings = "ok" => ret[p].ratings = io[p].body

\* C11: professor_comments returns the ratings of the answered ratings
\* request unchanged, and the empty list (never an error) when the search,
\* the token request or the ratings request fails or the name has no
\* candidate; no step of it sets or changes a record's Score; and every
\* call that resolved a record goes on to the token and the ratings
\* request, also for a scored record.
C11_CommentsContract ==
    /\ [][C11_OkStep /\ C11_FailStep /\ C11_ScoreStep /\ C11_FetchStep]_vars
    /\ []C11_Returned

\* An overview call scored professor 1; a comments call for the same
\* professor then fetched and returned two ratings, and the Score is as the
\* overview call left it.
C11_Witness ==
    \E p, q \in Procs :
        /\ op[p] = "overview" /\ pc[p] = "done" /\ ret[p].tag = "Some"
        /\ op[q] = "comments" /\ pc[q] = "done" /\ io[q].ratings = "ok"
        /\ Len(ret[q].ratings) = MaxRatings
        /\ ret[q].ratings # io[p].body
        /\ ret[p].pr = Some(1)
        /\ id_professor_map[1].score = ret[p].score

\* The resolution or the fetch of a completed call failed.
C12_Failed(p) ==
    \/ io[p].search = "err"
    \/ io[p].token = "err"
    \/ io[p].ratings = "err"

\* C12: a comment-listing handler whose name resolution or ratings fetch
\* failed has answered with the empty list.
C12_EmptyListOnFailure ==
    \A p \in Procs :
        (op[p] = "http_comments" /\ pc[p] = "done" /\ C12_Failed(p))
        => ret[p] = CommentsPayload(<<>>)

\* The step in which the search of an overview call succeeds with no
\* parsable identifier: the call returns None at once, the record map is as
\* it was, and the call has sent no token or ratings request.
C13_EmptyStep ==
    \A p \in Procs :
        (/\ op[p] = "overview"
         /\ io[p].search = "sent" /\ io'[p].search = "ok"
         /\ name_id_map'[LookupKey(name[p])] = <<>>)
        => /\ pc'[p] = "done"
           /\ ret'[p] = Ret("None", None, None, <<>>, None)
           /\ id_professor_map' = id_professor_map
           /\ professor_lock' = professor_lock
           /\ io'[p].token = "none" /\ io'[p].ratings = "none"

\* A completed overview call whose search gave no candidate has returned
\* None without a ratings request.
C13_Returned ==
    \A p \in Procs :
        (/\ op[p] = "overview" /\ pc[p] = "done" /\ io[p].search = "ok"
         /\ name_id_map[LookupKey(name[p])] = <<>>)
        => ret[p].tag = "None" /\ io[p].ratings = "none"

\* C13: when the search of a professor_overview call succeeds and no hit
\* has an identifier that parses as an unsigned integer (or there is no
\* hit), the call returns None in that step, no record is created and no
\* token or ratings request is sent.
C13_EmptyCandidates == [][C13_EmptyStep]_vars /\ []C13_Returned

\* An overview call's search succeeded with no candidate: the name is
\* indexed with the empty list, no record exists, the call returned None.
C13_Witness ==
    \E p \in Procs :
        /\ op[p] = "overview" /\ pc[p] = "done" /\ io[p].search = "ok"
        /\ name_id_map[LookupKey(name[p])] = <<>>
        /\ id_professor_map = << >>
        /\ ret[p] = Ret("None", None, None, <<>>, None)
        /\ io[p].ratings = "none"

\* The value published for a window whose scorer result is (sum, weight)
\* under the threshold min.
C14_Quality(result, min) ==
    IF result.weight >= min
    THEN Some((result.sum * Milli) \div result.weight)
    ELSE None

\* The record is unscored until the Score is stored.
C14_NotBefore ==
    scorer.phase # "done" => id_professor_map[1].score = None

\* The stored Score, whatever its fields, is the record's Score and the one
\* the call returned; each field is sum/weight when the window's weight is
\* at least the threshold and unknown otherwise; a published field has a
\* positive divisor.
C14_Stored ==
    scorer.phase = "done"
    => /\ IsSome(id_professor_map[1].score)
       /\ ret[1] = Ret("Some", Some(1), id_professor_map[1].score, <<>>, None)
       /\ LET s == Unwrap(id_professor_map[1].score)
          IN  /\ s.quality = C14_Quality(scorer.all, MIN_WEIGHT_ALL)
              /\ s.quality_yr = C14_Quality(scorer.yr, MIN_WEIGHT_YR)
              /\ IsSome(s.quality) => scorer.all.weight > 0
              /\ IsSome(s.quality_yr) => scorer.yr.weight > 0

\* C14: for each window the published quality is sum/weight when the
\* scorer's weight is at least the threshold (8.0 for the long window, 2.0
\* for the one-year window) and unknown below it, so the divisor is never
\* zero; the Score is stored as the record's Score also when both fields
\* are unknown.
C14_Thresholds == C14_NotBefore /\ C14_Stored

\* The answer had ratings, the long window's weight is positive and below
\* its threshold, the one-year window's weight is zero, and the record's
\* Score is stored with both fields unknown.
C14_Witness ==
    /\ scorer.phase = "done"
    /\ scorer.resp # <<>>
    /\ scorer.all.weight > 0 /\ scorer.all.weight < MIN_WEIGHT_ALL
    /\ scorer.yr.weight = 0
    /\ id_professor_map[1].score = Some([quality |-> None, quality_yr |-> None])

\* Every rating of the answer is dated strictly before the cutoff of the
\* _weighted_score call that ran last (vacuously so for the empty answer).
C15_AllBeforeCutoff ==
    \A k \in 1..Len(scorer.resp) : scorer.resp[k].date < scorer.offsetted

\* C15: _weighted_score returns (0.0, 0.0) for the empty rating list and
\* for a list in which every rating is dated strictly before the cutoff,
\* and the caller then publishes unknown quality for that window.
C15_ZeroForEmptyOrOld ==
    LET zero == [sum |-> 0, weight |-> 0]
    IN  /\ (scorer.phase = "all_returned" /\ C15_AllBeforeCutoff)
              => scorer.all = zero
        /\ (scorer.phase \in {"yr_returned", "done"} /\ C15_AllBeforeCutoff)
              => scorer.yr = zero
        /\ (scorer.phase = "done" /\ C15_AllBeforeCutoff)
              => Unwrap(id_professor_map[1].score).quality_yr = None

\* One iteration of the loop of _weighted_score on rating r, with
\* cutoff = now - window_seconds: a rating dated strictly before the cutoff
\* adds nothing; a rating dated at the cutoff has time_weight 0 and adds
\* nothing; every other rating adds its weight with
\* time_weight = (timestamp - cutoff) / window_seconds, which is above 1
\* for a rating dated after now.
C16_IterStep ==
    (scorer.phase \in {"all", "yr"} /\ scorer'.i = scorer.i + 1)
    => LET r == scorer.resp[scorer.i]
           cutoff == scorer.offsetted
           window == scorer.offset
           now == cutoff + window
           tw == (r.date - cutoff) \div (window \div Milli)
           w == (((thumbs_weight(r) * tw) \div Milli) * quantity_weight(r))
                   \div Milli
           added == scorer'.total_weight - scorer.total_weight
       IN  /\ r.date < cutoff
              => /\ scorer'.total_weight = scorer.total_weight
                 /\ scorer'.quality_ratings_sum = scorer.quality_ratings_sum
           /\ r.date = cutoff
              => /\ time_weight(r, cutoff, window) = 0
                 /\ scorer'.total_weight = scorer.total_weight
                 /\ scorer'.quality_ratings_sum = scorer.quality_ratings_sum
           /\ r.date >= cutoff
              => /\ tw >= 0
                 /\ added = w
                 /\ scorer'.quality_ratings_sum =
                       scorer.quality_ratings_sum
                          + ((r.helpful + r.clarity) * w) \div 2
                 /\ r.date > now => tw > Milli

\* C16: in every iteration of the scorer's loop, a rating dated strictly
\* before the cutoff contributes nothing to sum or weight, a rating dated
\* exactly at the cutoff has time_weight 0 and contributes nothing, and a
\* kept rating has the unclamped time_weight
\* (timestamp - cutoff) / window_seconds >= 0, above 1 when it is dated
\* after now.
C16_CutoffAndTimeWeight == [][C16_IterStep]_vars

\* Every identifier listed in the identity index has a record.
C17_Indexed ==
    data_lock = 0
    => \A key \in DOMAIN name_id_map :
          Range(name_id_map[key]) \subseteq DOMAIN id_professor_map

\* The step of a resolution that finds its name indexed with a non-empty
\* candidate list: the call gets the handle of the first candidate.
C17_HitStep ==
    \A p \in Procs :
        (/\ pc[p] = "n2p" /\ pc'[p] # "n2p"
         /\ LookupKey(name[p]) \in DOMAIN name_id_map
         /\ name_id_map[LookupKey(name[p])] # <<>>)
        => /\ pc'[p] = "prof_lock"
           /\ pr'[p] = Some(name_id_map[LookupKey(name[p])][1])
           /\ Unwrap(pr'[p]) \in DOMAIN id_professor_map

\* C17: whenever the controller's map lock is free, every identifier
\* listed in an identity-index entry has a record in the record map, and a
\* resolution that finds its name indexed with a non-empty candidate list
\* gets the handle of the record of the first candidate.
C17_IndexImpliesRecord == []C17_Indexed /\ [][C17_HitStep]_vars

\* A name is indexed with two candidates, both have records, and a later
\* call for the name got the first candidate's handle from the index.
C17_Witness ==
    \E p \in Procs :
        /\ data_lock = 0
        /\ pc[p] = "prof_lock" /\ io[p].search = "none"
        /\ name_id_map[LookupKey(name[p])] = <<2, 1>>
        /\ pr[p] = Some(2)
        /\ DOMAIN id_professor_map = {1, 2}

\* No step replaces, extends or removes an entry of the identity index.
C18_KeptStep ==
    \A key \in DOMAIN name_id_map :
        /\ key \in DOMAIN name_id_map'
        /\ name_id_map'[key] = name_id_map[key]

\* A resolution that finds its name indexed sends no search.
C18_NoSearchStep ==
    \A p \in Procs :
        (/\ pc[p] = "n2p" /\ pc'[p] # "n2p"
         /\ LookupKey(name[p]) \in DOMAIN name_id_map)
        => pc'[p] # "search" /\ io'[p].search = "none"

\* A search in flight is for a name that is not indexed.
C18_SearchIsForNewName ==
    \A p \in Procs :
        pc[p] = "search" => LookupKey(name[p]) \notin DOMAIN name_id_map

\* C18: once the identity index holds a candidate list for a normalized
\* name, no step replaces, extends or removes that entry, and no later
\* resolution of that name sends an upstream search, whatever the upstream
\* would answer.
C18_IndexWrittenOnce ==
    [][C18_KeptStep /\ C18_NoSearchStep]_vars /\ []C18_SearchIsForNewName

\* A call indexed its name with two candidates; a later call for the same
\* name has returned the first candidate without a search, and the entry is
\* as the first call wrote it.
C18_Witness ==
    \E p, q \in Procs :
        /\ pc[p] = "done" /\ io[p].search = "ok"
        /\ pc[q] = "done" /\ io[q].search = "none"
        /\ name[q] = name[p]
        /\ name_id_map[LookupKey(name[p])] = <<1, 2>>
        /\ op[q] = "overview" /\ ret[q].pr = Some(1)

\* The calls whose search is in flight.
C19_Searching == { p \in Procs : io[p].search = "sent" }

\* At most one search is in flight, and the call that sent it holds the
\* data lock.
C19_OneInFlight ==
    /\ Cardinality(C19_Searching) <= 1
    /\ \A p \in C19_Searching : data_lock = p /\ pc[p] = "search"

\* The step in which a call sends a search: the call takes the data lock,
\* no other search is in flight and no call has had a search for the same
\* name answered.
C19_SendStep ==
    \A p \in Procs :
        (io[p].search = "none" /\ io'[p].search = "sent")
        => /\ data_lock = 0 /\ data_lock' = p
           /\ \A q \in Procs \ {p} :
                 /\ io[q].search # "sent"
                 /\ io[q].search = "ok"
                       => LookupKey(name[q]) # LookupKey(name[p])

\* Of the calls for one name, at most one has sent a search that succeeded,
\* and none has a search in flight or answered beside it.
C19_OnePerName ==
    \A p, q \in Procs :
        (/\ p # q
         /\ LookupKey(name[p]) = LookupKey(name[q])
         /\ io[p].search = "ok")
        => io[q].search \in {"none", "err"}

\* C19: the data lock is held while a search is in flight, so at most one
\* search is in flight at any time, and of the calls that resolve one name
\* at most one sends a search that succeeds: once a search for the name has
\* succeeded no call sends another.
C19_SearchSerialized ==
    []C19_OneInFlight /\ [][C19_SendStep]_vars /\ []C19_OnePerName

\* Two calls for the same name run at once; both are past resolution with
\* the same record, one search was sent and it succeeded.
C19_Witness ==
    \E p, q \in Procs :
        /\ p # q /\ calls = NumProcs
        /\ name[p] = name[q]
        /\ pc[p] = "prof_lock" /\ pc[q] = "prof_lock"
        /\ pr[p] = pr[q]
        /\ io[p].search = "ok" /\ io[q].search = "none"

\* The holder of a record's lock is a call that works on that record.
C20_LockIsOwn ==
    \A id \in DOMAIN professor_lock :
        professor_lock[id] # 0 => pr[professor_lock[id]] = Some(id)

\* A call that waits for the lock of a record no other call works on finds
\* it free: it never waits on a call for another professor.
C20_NoCrossWait ==
    \A p \in Procs :
        (pc[p] = "prof_lock" /\ \A q \in Procs \ {p} : pr[q] # pr[p])
        => professor_lock[Unwrap(pr[p])] = 0

\* C20: overview calls for two distinct, already resolved, unscored
\* professors never wait on each other's record lock: a record's lock is
\* held only by a call working on that record, and a call whose record no
\* other call works on finds its lock free.  (That both ratings requests
\* are in flight at once is the reachable state C20_Witness.)
C20_ParallelScoring == C20_LockIsOwn /\ C20_NoCrossWait

\* The ratings requests of two overview calls, for professor 1 and for
\* professor 2, are in flight at the same time, each call holding its own
\* record's lock.
C20_Witness ==
    \E p, q \in Procs :
        /\ op[p] = "overview" /\ pc[p] = "ratings" /\ io[p].ratings = "sent"
        /\ op[q] = "overview" /\ pc[q] = "ratings" /\ io[q].ratings = "sent"
        /\ pr[p] = Some(1) /\ pr[q] = Some(2)
        /\ io[p].search = "none" /\ io[q].search = "none"
        /\ professor_lock[1] = p /\ professor_lock[2] = q
        /\ id_professor_map[1].score = None /\ id_professor_map[2].score = None

\* The step in which a call sends its ratings request: graphql_token has
\* just returned it a token, from the cache or from its own answered token
\* request, and the call carries that token.
C21_SendStep ==
    \A p \in Procs :
        (io[p].ratings = "none" /\ io'[p].ratings = "sent")
        => /\ pc[p] \in {"tok_check", "tok_store"}
           /\ pc'[p] = "ratings"
           /\ IsSome(token'[p])
           /\ IF pc[p] = "tok_check"
              THEN io[p].token = "none" /\ token'[p] = rmp_graphql_token
              ELSE io[p].token = "ok" /\ token'[p] = token[p]

\* The step in which a call's token request fails: no ratings request is
\* sent, professor_overview returns None and professor_comments the empty
\* list.
C21_TokenFailStep ==
    \A p \in Procs :
        (io[p].token = "sent" /\ io'[p].token = "err")
        => /\ io'[p].ratings = "none"
           /\ pc'[p] = "done"
           /\ op[p] = "overview" => ret'[p] = Ret("None", None, None, <<>>, None)
           /\ op[p] = "comments" => ret'[p] = Ret("Vec", None, None, <<>>, None)

\* A call with a ratings request in flight carries a token, and a call
\* whose token request failed has sent no ratings request.
C21_TokenFirst ==
    \A p \in Procs :
        /\ pc[p] = "ratings" => (IsSome(token[p]) /\ io[p].ratings = "sent")
        /\ io[p].ratings # "none" => io[p].token \in {"none", "ok"}
        /\ io[p].token = "err" => io[p].ratings = "none"

\* C21: a ratings request is sent only in the step in which graphql_token
\* returns a token to the same call; when the token request fails no
\* ratings request is sent, professor_overview returns None and
\* professor_comments returns the empty list.
C21_TokenBeforeRatings ==
    [][C21_SendStep /\ C21_TokenFailStep]_vars /\ []C21_TokenFirst

\* The token requests of an overview call and of a comments call failed:
\* neither sent a ratings request, one returned None and the other the
\* empty list.
C21_Witness ==
    \E p, q \in Procs :
        /\ op[p] = "overview" /\ pc[p] = "done" /\ io[p].token = "err"
        /\ op[q] = "comments" /\ pc[q] = "done" /\ io[q].token = "err"
        /\ io[p].ratings = "none" /\ io[q].ratings = "none"
        /\ ret[p].tag = "None" /\ ret[q] = Ret("Vec", None, None, <<>>, None)

\* The data lock is held across an await only by a call whose search is in
\* flight: a call that waits for the data lock or for a record lock does
\* not hold the data lock.
C22_LockOrder ==
    \A p \in Procs :
        /\ data_lock = p => pc[p] = "search"
        /\ pc[p] \in {"n2p", "prof_lock", "tok_check", "tok_store"}
              => data_lock # p

\* A record's lock is held only by a running call that works on it.
C22_HolderRuns ==
    \A id \in DOMAIN professor_lock :
        professor_lock[id] # 0
        => /\ pr[professor_lock[id]] = Some(id)
           /\ pc[professor_lock[id]] \in
                 {"tok_check", "tok_fetch", "tok_store", "ratings"}

\* Every call that has started eventually returns.
C22_Completes ==
    \A p \in Procs : (pc[p] \notin {"idle", "done"}) ~> (pc[p] = "done")

\* C22: under any interleaving of professor_overview, professor_comments
\* and graphql_token calls, with every upstream request eventually
\* answered and locks granted fairly, every call eventually returns; a
\* call never waits for the data lock or for a record lock while it holds
\* the data lock.
C22_NoDeadlock == []C22_LockOrder /\ []C22_HolderRuns /\ C22_Completes

\* One call holds the data lock across its search while another call,
\* holding a record's lock, waits for the data lock to look up the token.
C22_Witness ==
    \E p, q \in Procs :
        /\ pc[p] = "search" /\ data_lock = p
        /\ pc[q] = "tok_check" /\ IsSome(pr[q])
        /\ professor_lock[Unwrap(pr[q])] = q

\* Call p has a ratings request for record id in flight.
C23_Fetching(p, id) ==
    pc[p] = "ratings" /\ io[p].ratings = "sent" /\ pr[p] = Some(id)

\* A ratings request for a record is in flight only under that record's
\* lock, so at most one per record.
C23_OneFetch ==
    \A id \in DOMAIN id_professor_map : \A p, q \in Procs :
        /\ C23_Fetching(p, id) => professor_lock[id] = p
        /\ C23_Fetching(p, id) /\ C23_Fetching(q, id) => p = q

\* While a call keeps a record's lock, every other call for the record
\* stays before pr.lock(): it sends nothing and does not return.
C23_WaitStep ==
    \A id \in DOMAIN id_professor_map : \A p, q \in Procs :
        /\ professor_lock[id] = p /\ professor_lock'[id] = p
        /\ q # p /\ pr[q] = Some(id) /\ pc[q] = "prof_lock"
        => pc'[q] = "prof_lock" /\ io'[q] = io[q] /\ ret'[q] = ret[q]

\* A record's lock is given up only as its holder returns; with a ratings
\* request in flight, only as that request is answered.
C23_ReleaseStep ==
    \A id \in DOMAIN id_professor_map : \A p \in Procs :
        professor_lock[id] = p /\ professor_lock'[id] # p
        => /\ pc'[p] = "done"
           /\ professor_lock'[id] = 0
           /\ C23_Fetching(p, id) => io'[p].ratings \in {"ok", "err"}

\* C23: at most one ratings request per professor record is in flight at
\* any time, over professor_overview and professor_comments together,
\* since both hold the record's lock across the request; a
\* professor_comments call for a professor keeps every concurrent
\* professor_overview or professor_comments call for the same professor
\* waiting until its request is answered.
C23_OneRatingsFetchPerRecord ==
    [][C23_WaitStep /\ C23_ReleaseStep]_vars /\ []C23_OneFetch

\* A professor_comments call has its ratings request in flight while
\* another call for the same professor waits for the record's lock.
C23_Witness ==
    \E p, q \in Procs : \E id \in DOMAIN id_professor_map :
        /\ op[p] = "comments" /\ C23_Fetching(p, id)
        /\ professor_lock[id] = p
        /\ q # p /\ pr[q] = Some(id) /\ pc[q] = "prof_lock"

\* The identity index holds the empty candidate list for key.
C24_Empty(map, key) == key \in DOMAIN map /\ map[key] = <<>>

\* A search answered with hits of which none has an identifier that
\* parses leaves the empty list under the call's name.
C24_MemoStep ==
    \A p \in Procs : \A res \in SearchResults :
        (/\ SearchOk(p, res)
         /\ \A i \in DOMAIN res : ParseId(res[i]) = None)
        => C24_Empty(name_id_map', LookupKey(name[p]))

\* A failed search leaves the call's name out of the index.
C24_FailStep ==
    \A p \in Procs :
        io[p].search = "sent" /\ io'[p].search = "err"
        => LookupKey(name[p]) \notin DOMAIN name_id_map'

\* An empty entry stays empty.
C24_StaysStep ==
    \A key \in DOMAIN name_id_map :
        C24_Empty(name_id_map, key) => C24_Empty(name_id_map', key)

\* A resolution of a name whose entry is empty returns nothing at once:
\* no search is sent and the controller's data is left as it was.
C24_LaterStep ==
    \A p \in Procs :
        (/\ pc[p] = "n2p" /\ pc'[p] # "n2p"
         /\ C24_Empty(name_id_map, LookupKey(name[p])))
        => /\ pc'[p] = "done"
           /\ ret'[p] = FailRet(op[p])
           /\ io'[p] = NoIo
           /\ ctrl' = ctrl

\* C24: a search that succeeds with no parsable identifier is memoized as
\* an empty candidate list, which no later step changes; unlike after a
\* failed search, every later resolution of that name returns nothing
\* without sending a search.
C24_EmptyListMemoized ==
    [][C24_MemoStep /\ C24_FailStep /\ C24_StaysStep /\ C24_LaterStep]_vars

\* A call's search succeeded with no candidate; a later call whose name
\* has the same key returned nothing without a search.
C24_Witness ==
    \E p, q \in Procs :
        /\ p # q
        /\ pc[p] = "done" /\ io[p].search = "ok"
        /\ C24_Empty(name_id_map, LookupKey(name[p]))
        /\ pc[q] = "done" /\ io[q] = NoIo /\ op[q] # "token"
        /\ LookupKey(name[q]) = LookupKey(name[p])
        /\ ret[q] = FailRet(op[q])

====
